---- MODULE Spec2Model ----
(***************************************************************************)
(* A model of the YAKE backend of Annif (annif/backend/yake.py): label     *)
(* normalization, index construction / persistence / loading, keyphrase    *)
(* matching with score transformation and combination, and the assembly    *)
(* of the suggestion list.                                                 *)
(*                                                                         *)
(* Python strings are sequences of code points, so that splitting,         *)
(* stripping, lower-casing, sorting and the regular expression of          *)
(* _normalize_label work on characters.  Scores are exact rationals        *)
(* <<numerator, denominator>> with a positive denominator.                 *)
(***************************************************************************)
EXTENDS Integers, Sequences, FiniteSets, TLC

VARIABLES
    analyzer,       \* project.analyzer: the word normalizer in use
    graph,          \* project.vocab.as_graph(): the vocabulary graph
    params,         \* self.params of the backend instance
    _index,         \* self._index: None, or the label index
    indexfile,      \* the file datadir/yake-index: None, or its text
    exc,            \* the exception the last call raised ("none" if none)
    pc,             \* which call has completed
    label,          \* argument of _normalize_label / _keyphrase2uris
    nkey,           \* _normalize_label(label)
    nkey2,          \* _normalize_label(nkey)
    lookup_key,     \* the key _keyphrase2uris looks up (its local keyphrase)
    score1,         \* first argument of _conflate_scores
    score2,         \* second argument of _conflate_scores
    conflated,      \* what _conflate_scores returned or raised
    keyphrases,     \* what the extractor returned: <<phrase, raw score>>*
    limit,          \* int(params['limit'])
    suggestions,    \* what _keyphrases2suggestions returned
    result          \* the (uri, score) pairs _suggest keeps

vars == <<analyzer, graph, params, _index, indexfile, exc, pc, label, nkey,
          nkey2, lookup_key, score1, score2, conflated, keyphrases, limit,
          suggestions, result>>

-----------------------------------------------------------------------------
(* Bounds of the model.                                                    *)

MaxLabelLen == 4
MaxLabels == 3
MaxKeyphrases == 3
MaxLimit == 3
MaxPairs == 3
ScoreDen == 20

-----------------------------------------------------------------------------
(* Python values.                                                          *)

None == <<>>
Some(x) == <<x>>

\* ord(c) of the characters the model uses.
Ord ==
    [c \in {"\t", "\n", " ", "\"", "(", ")", ",", "1", "2", "3", "A", "B",
            "a", "b", "c", "d", "e", "f", "h", "i", "l", "n", "p", "r", "t",
            "u", "x"} |->
        CASE c = "\t" -> 9   [] c = "\n" -> 10  [] c = " " -> 32
          [] c = "\"" -> 34  [] c = "(" -> 40   [] c = ")" -> 41
          [] c = "," -> 44   [] c = "1" -> 49   [] c = "2" -> 50
          [] c = "3" -> 51   [] c = "A" -> 65   [] c = "B" -> 66
          [] c = "a" -> 97   [] c = "b" -> 98   [] c = "c" -> 99
          [] c = "d" -> 100  [] c = "e" -> 101  [] c = "f" -> 102
          [] c = "h" -> 104  [] c = "i" -> 105  [] c = "l" -> 108
          [] c = "n" -> 110  [] c = "p" -> 112  [] c = "r" -> 114
          [] c = "t" -> 116  [] c = "u" -> 117  [] c = "x" -> 120]

\* A Python string literal, written as the tuple of its characters.
Str(t) == [i \in 1..Len(t) |-> Ord[t[i]]]

\* str.isspace() of one character (ASCII and Latin-1 white space).
IsSpace(c) == c \in {9, 10, 11, 12, 13, 28, 29, 30, 31, 32, 133, 160}

\* str.lower() on the ASCII range.
LowerChar(c) == IF c >= 65 /\ c <= 90 THEN c + 32 ELSE c
Lower(s) == [i \in 1..Len(s) |-> LowerChar(s[i])]

\* The order of Python strings: lexicographic by code point.
StrLess(a, b) ==
    \E i \in 1..(Len(a) + 1) :
        /\ \A j \in 1..(i - 1) : j <= Len(b) /\ a[j] = b[j]
        /\ \/ i > Len(a) /\ i <= Len(b)
           \/ i <= Len(a) /\ i <= Len(b) /\ a[i] < b[i]

RECURSIVE SplitFrom(_, _, _)
SplitFrom(s, i, cur) ==
    IF i > Len(s)
    THEN IF cur = <<>> THEN <<>> ELSE <<cur>>
    ELSE IF IsSpace(s[i])
         THEN (IF cur = <<>> THEN <<>> ELSE <<cur>>) \o SplitFrom(s, i + 1, <<>>)
         ELSE SplitFrom(s, i + 1, Append(cur, s[i]))

\* str.split(): the maximal runs of non-space characters.
Split(s) == SplitFrom(s, 1, <<>>)

RECURSIVE SplitOnFrom(_, _, _, _)
SplitOnFrom(s, sep, i, cur) ==
    IF i > Len(s)
    THEN <<cur>>
    ELSE IF s[i] = sep
         THEN <<cur>> \o SplitOnFrom(s, sep, i + 1, <<>>)
         ELSE SplitOnFrom(s, sep, i + 1, Append(cur, s[i]))

\* str.split(sep) for a one-character separator: empty fields are kept.
SplitOn(s, sep) == SplitOnFrom(s, sep, 1, <<>>)

\* str.strip(): white space removed at both ends.
Strip(s) ==
    LET keep == {i \in 1..Len(s) : ~IsSpace(s[i])}
    IN  IF keep = {} THEN <<>>
        ELSE LET lo == CHOOSE i \in keep : \A j \in keep : i <= j
                 hi == CHOOSE i \in keep : \A j \in keep : i >= j
             IN  SubSeq(s, lo, hi)

RECURSIVE Join(_, _)
\* sep.join(ws)
Join(sep, ws) ==
    IF ws = <<>> THEN <<>>
    ELSE IF Len(ws) = 1 THEN ws[1]
    ELSE ws[1] \o sep \o Join(sep, Tail(ws))

\* ws without its i-th element.
RemoveAt(ws, i) == SubSeq(ws, 1, i - 1) \o SubSeq(ws, i + 1, Len(ws))

RECURSIVE Sorted(_)
\* sorted(ws): ascending, stable.
Sorted(ws) ==
    IF ws = <<>> THEN <<>>
    ELSE LET least == {i \in 1..Len(ws) : \A j \in 1..Len(ws) : ~StrLess(ws[j], ws[i])}
             m == CHOOSE i \in least : \A j \in least : i <= j
         IN  <<ws[m]>> \o Sorted(RemoveAt(ws, m))

-----------------------------------------------------------------------------
(* Label normalization.                                                    *)

\* project.analyzer.normalize_word: "simple" leaves the word as it is,
\* "snowball" strips one final vowel of a longer word (kalliotaide ->
\* kalliotaid).
normalize_word(an, word) ==
    IF an = "snowball" /\ Len(word) > 1 /\ word[Len(word)] \in {65, 97, 101}
    THEN SubSeq(word, 1, Len(word) - 1)
    ELSE word

\* Where a match of r' \(.*\)' that starts at i ends (0: no match at i):
\* a space, '(', then as many non-newline characters as possible, then ')'.
MatchEnd(s, i) ==
    IF i + 1 <= Len(s) /\ s[i] = 32 /\ s[i + 1] = 40
    THEN LET ends == {j \in (i + 2)..Len(s) :
                         /\ s[j] = 41
                         /\ \A k \in (i + 2)..(j - 1) : s[k] # 10}
         IN  IF ends = {} THEN 0
             ELSE CHOOSE j \in ends : \A k \in ends : k <= j
    ELSE 0

\* The same for r'\(.*\)', the pattern without its leading space.
MatchEndNoSpace(s, i) ==
    IF i <= Len(s) /\ s[i] = 40
    THEN LET ends == {j \in (i + 1)..Len(s) :
                         /\ s[j] = 41
                         /\ \A k \in (i + 1)..(j - 1) : s[k] # 10}
         IN  IF ends = {} THEN 0
             ELSE CHOOSE j \in ends : \A k \in ends : k <= j
    ELSE 0

RECURSIVE SubFrom(_, _)
SubFrom(s, i) ==
    IF i > Len(s) THEN <<>>
    ELSE IF MatchEnd(s, i) # 0
         THEN SubFrom(s, MatchEnd(s, i) + 1)
         ELSE <<s[i]>> \o SubFrom(s, i + 1)

RECURSIVE SubFromNoSpace(_, _)
SubFromNoSpace(s, i) ==
    IF i > Len(s) THEN <<>>
    ELSE IF MatchEndNoSpace(s, i) # 0
         THEN SubFromNoSpace(s, MatchEndNoSpace(s, i) + 1)
         ELSE <<s[i]>> \o SubFromNoSpace(s, i + 1)

ReSubParensNoSpace(s) == SubFromNoSpace(s, 1)

\* re.sub(r' \(.*\)', '', s): every match, left to right, removed.
ReSubParens(s) == SubFrom(s, 1)

_lemmatize_phrase(phrase) ==
    LET words == Split(phrase)
    IN  Join(<<32>>, [i \in 1..Len(words) |-> Lower(normalize_word(analyzer, words[i]))])

_sort_phrase(phrase) == Join(<<32>>, Sorted(Split(phrase)))

_normalize_label(l) ==
    LET stripped == IF params.remove_parentheses THEN ReSubParens(l) ELSE l
    IN  _sort_phrase(_lemmatize_phrase(stripped))

\* The key _keyphrase2uris computes before the lookup.
KeyphraseKey(keyphrase) == _sort_phrase(_lemmatize_phrase(keyphrase))

\* dict.get(key, []) on the index (a function from keys to URI lists).
IndexGet(index, key) == IF key \in DOMAIN index THEN index[key] ELSE <<>>

_keyphrase2uris(keyphrase) == IndexGet(_index[1], KeyphraseKey(keyphrase))

-----------------------------------------------------------------------------
(* Scores: exact rationals <<n, d>>, d > 0, in lowest terms.  <<0, 0>>     *)
(* stands for a division by zero (Python raises ZeroDivisionError).        *)

ZeroDivisionError == <<0, 0>>

Abs(n) == IF n < 0 THEN 0 - n ELSE n

RECURSIVE Gcd(_, _)
Gcd(a, b) == IF b = 0 THEN a ELSE Gcd(b, a % b)

\* n/d in lowest terms with a positive denominator (d # 0).
Rat(n, d) ==
    LET g == Gcd(Abs(n), Abs(d))
        sgn == IF d < 0 THEN 0 - 1 ELSE 1
    IN  <<sgn * (n \div g), sgn * (d \div g)>>

IsError(x) == x[2] = 0
RAdd(x, y) == IF IsError(x) \/ IsError(y) THEN ZeroDivisionError
              ELSE Rat(x[1] * y[2] + y[1] * x[2], x[2] * y[2])
RSub(x, y) == IF IsError(x) \/ IsError(y) THEN ZeroDivisionError
              ELSE Rat(x[1] * y[2] - y[1] * x[2], x[2] * y[2])
RMul(x, y) == IF IsError(x) \/ IsError(y) THEN ZeroDivisionError
              ELSE Rat(x[1] * y[1], x[2] * y[2])
RDiv(x, y) == IF IsError(x) \/ IsError(y) \/ y[1] = 0 THEN ZeroDivisionError
              ELSE Rat(x[1] * y[2], x[2] * y[1])
RLess(x, y) == x[1] * y[2] < y[1] * x[2]

Zero == <<0, 1>>
One == <<1, 1>>

_conflate_scores(s1, s2) ==
    RDiv(RMul(s1, s2), RAdd(RMul(s1, s2), RMul(RSub(One, s1), RSub(One, s2))))

\* 1.0 / (score + 1) without the clamp of negative scores.
TransformUnclamped(score) == RDiv(One, RAdd(score, One))

_transform_score(score) ==
    IF RLess(score, Zero) THEN One ELSE RDiv(One, RAdd(score, One))

-----------------------------------------------------------------------------
(* Matching keyphrases and combining their scores.                         *)

\* Position of uri among the keys of the insertion-ordered dict (0: absent).
DictPos(combined, uri) ==
    LET at == {i \in 1..Len(combined) : combined[i][1] = uri}
    IN  IF at = {} THEN 0 ELSE CHOOSE i \in at : TRUE

RECURSIVE CombineFrom(_, _)
\* The loop of _combine_suggestions over the remaining pairs.
CombineFrom(combined, rest) ==
    IF rest = <<>> THEN combined
    ELSE LET uri == rest[1][1]
             score == rest[1][2]
             at == DictPos(combined, uri)
         IN  IF at = 0
             THEN CombineFrom(Append(combined, <<uri, score>>), Tail(rest))
             ELSE CombineFrom(
                      [combined EXCEPT ![at] = <<uri, _conflate_scores(score, combined[at][2])>>],
                      Tail(rest))

\* The list kept as it is: duplicate URIs are not merged.
CombineNothing(pairs) == pairs

_combine_suggestions(pairs) == CombineFrom(<<>>, pairs)

RECURSIVE MatchesFrom(_)
\* The first loop of _keyphrases2suggestions: one pair per URI of every
\* keyphrase found in the index (unmatched keyphrases are only logged).
MatchesFrom(kps) ==
    IF kps = <<>> THEN <<>>
    ELSE LET uris == _keyphrase2uris(kps[1][1])
         IN  [i \in 1..Len(uris) |-> <<uris[i], _transform_score(kps[1][2])>>]
                 \o MatchesFrom(Tail(kps))

_keyphrases2suggestions(kps) == _combine_suggestions(MatchesFrom(kps))

\* A conflation raised inside the call.
Raised(pairs) == \E i \in 1..Len(pairs) : IsError(pairs[i][2])

\* seq[:n] of Python.
Slice(seq, n) ==
    IF n >= 0 THEN SubSeq(seq, 1, IF n < Len(seq) THEN n ELSE Len(seq))
    ELSE SubSeq(seq, 1, IF Len(seq) + n > 0 THEN Len(seq) + n ELSE 0)

RECURSIVE KeepPositive(_)
KeepPositive(pairs) ==
    IF pairs = <<>> THEN <<>>
    ELSE (IF RLess(Zero, pairs[1][2]) THEN <<pairs[1]>> ELSE <<>>)
             \o KeepPositive(Tail(pairs))

\* The comprehension of _suggest: the first lim pairs, those with a
\* positive score kept.
Assemble(pairs, lim) == KeepPositive(Slice(pairs, lim))

-----------------------------------------------------------------------------
(* The configured label kinds, index construction, and the index file.     *)

\* The mapping of the label_types property.
KindOf(token) ==
    CASE token = Str(<<"p", "r", "e", "f">>) -> "prefLabel"
      [] token = Str(<<"a", "l", "t">>) -> "altLabel"
      [] token = Str(<<"h", "i", "d", "d", "e", "n">>) -> "hiddenLabel"
      [] OTHER -> "KeyError"

\* The label_types property: the kinds the configuration names, or the
\* ConfigurationException an unknown token raises (ok = FALSE).
label_types(p) ==
    IF p.label_types # None
    THEN LET lt_entries == SplitOn(p.label_types[1], Ord[","])
             kinds == [i \in 1..Len(lt_entries) |-> KindOf(Strip(lt_entries[i]))]
         IN  IF \E i \in 1..Len(kinds) : kinds[i] = "KeyError"
             THEN [ok |-> FALSE, kinds |-> <<>>]
             ELSE [ok |-> TRUE, kinds |-> kinds]
    ELSE [ok |-> TRUE, kinds |-> <<"prefLabel", "altLabel">>]

\* Every label of the concept, whatever its language.
ConceptLabelsAnyLanguage(g, concept, kinds, lang) ==
    {l \in g.labels :
        /\ l.concept = concept
        /\ \E i \in 1..Len(kinds) : l.kind = kinds[i]}

\* _get_concept_labels: the concept's labels of the given kinds whose
\* language tag is the configured language.
_get_concept_labels(g, concept, kinds, lang) ==
    {l \in g.labels :
        /\ l.concept = concept
        /\ \E i \in 1..Len(kinds) : l.kind = kinds[i]
        /\ l.lang = lang}

\* index[key].add(uri) on a defaultdict(set).
IndexAdd(index, key, uri) ==
    IF key \in DOMAIN index
    THEN [index EXCEPT ![key] = @ \cup {uri}]
    ELSE [k \in DOMAIN index \cup {key} |-> IF k = key THEN {uri} ELSE index[k]]

RECURSIVE AddLabels(_, _, _)
\* The inner loop of _create_index over the labels of one concept.
AddLabels(index, uri, labels) ==
    IF labels = {} THEN index
    ELSE LET l == CHOOSE x \in labels : TRUE
         IN  AddLabels(IndexAdd(index, _normalize_label(l.text), uri), uri,
                       labels \ {l})

RECURSIVE AddConcepts(_, _, _, _, _)
\* The outer loop of _create_index over the concepts of the graph.
AddConcepts(index, g, concepts, kinds, lang) ==
    IF concepts = {} THEN index
    ELSE LET c == CHOOSE x \in concepts : TRUE
         IN  IF c \in g.deprecated
             THEN AddConcepts(index, g, concepts \ {c}, kinds, lang)
             ELSE AddConcepts(
                      AddLabels(index, c, _get_concept_labels(g, c, kinds, lang)),
                      g, concepts \ {c}, kinds, lang)

\* index.pop('', None)
IndexPop(index, key) == [k \in DOMAIN index \ {key} |-> index[k]]

\* The index _create_index builds from the graph for the given kinds and
\* language: a function from keys to sets of URIs.
BuildIndex(g, kinds, lang) ==
    IndexPop(AddConcepts([k \in {} |-> {}], g, g.concepts, kinds, lang), <<>>)

\* _create_index: the label_types property is read once per concept that
\* is not deprecated, so an unknown token raises only if there is one.
_create_index(g, p) ==
    IF ~label_types(p).ok /\ g.concepts \ g.deprecated # {}
    THEN [exc |-> "ConfigurationException", index |-> [k \in {} |-> {}]]
    ELSE [exc |-> "none", index |-> BuildIndex(g, label_types(p).kinds, p.language)]

\* The orders in which a set can be iterated.
Orders(S) ==
    {q \in [1..Cardinality(S) -> S] : \A i, j \in 1..Cardinality(S) : q[i] = q[j] => i = j}

\* The index with the iteration order of every URI set fixed.
IndexOrders(index) ==
    {ix \in [DOMAIN index -> UNION {Orders(index[k]) : k \in DOMAIN index}] :
        \A k \in DOMAIN index : ix[k] \in Orders(index[k])}

RECURSIVE SaveLines(_, _)
\* _save_index: one line per key, in the order keyorder of the dict.
SaveLines(index, keyorder) ==
    IF keyorder = <<>> THEN <<>>
    ELSE keyorder[1] \o <<Ord["\t"]>> \o Join(<<Ord[" "]>>, index[keyorder[1]])
             \o <<Ord["\n"]>> \o SaveLines(index, Tail(keyorder))

RECURSIVE SaveLinesUnseparated(_, _)
\* The same with the URIs joined by nothing.
SaveLinesUnseparated(index, keyorder) ==
    IF keyorder = <<>> THEN <<>>
    ELSE keyorder[1] \o <<Ord["\t"]>> \o Join(<<>>, index[keyorder[1]])
             \o <<Ord["\n"]>> \o SaveLinesUnseparated(index, Tail(keyorder))

_save_index(index, keyorder) == SaveLines(index, keyorder)

\* The lines a text file yields: the text cut after every newline.
FileLines(text) ==
    LET pieces == SplitOn(text, Ord["\n"])
    IN  IF pieces[Len(pieces)] = <<>> THEN SubSeq(pieces, 1, Len(pieces) - 1)
        ELSE pieces

RECURSIVE LoadLines(_, _)
\* The loop of _load_index: a line that does not split into two fields
\* at tabs raises ValueError.
LoadLines(index, lines) ==
    IF lines = <<>> THEN [exc |-> "none", index |-> index]
    ELSE LET fields == SplitOn(Strip(lines[1]), Ord["\t"])
         IN  IF Len(fields) # 2
             THEN [exc |-> "ValueError", index |-> index]
             ELSE LoadLines(
                      [k \in DOMAIN index \cup {fields[1]} |->
                          IF k = fields[1] THEN Split(fields[2]) ELSE index[k]],
                      Tail(lines))

_load_index(text) == LoadLines([k \in {} |-> <<>>], FileLines(text))

-----------------------------------------------------------------------------
(* Values the variables hold while the call they belong to is not under    *)
(* study.                                                                  *)

EmptyGraph == [concepts |-> {}, deprecated |-> {}, labels |-> {}]
EmptyIndex == [k \in {} |-> <<>>]
DefaultParams ==
    [language |-> "fi", label_types |-> None, remove_parentheses |-> FALSE]

-----------------------------------------------------------------------------
(* Normalization of labels and keyphrases: _normalize_label applied to a   *)
(* label, applied again to its own result, and _keyphrase2uris applied to  *)
(* the same text as a keyphrase.                                           *)

NormAlphabet == {Ord[" "], Ord["\""], Ord["("], Ord[")"], Ord["A"], Ord["a"]}

Strings(alphabet, n) == UNION {[1..k -> alphabet] : k \in 0..n}

NormInit ==
    /\ analyzer \in {"simple", "snowball"}
    /\ graph = EmptyGraph
    /\ params \in {[DefaultParams EXCEPT !.remove_parentheses = rp] : rp \in BOOLEAN}
    /\ _index = Some(EmptyIndex)
    /\ indexfile = None
    /\ exc = "none"
    /\ pc = "labelled"
    /\ label \in Strings(NormAlphabet, MaxLabelLen)
    /\ nkey = <<>>
    /\ nkey2 = <<>>
    /\ lookup_key = <<>>
    /\ score1 = Zero /\ score2 = Zero /\ conflated = Zero
    /\ keyphrases = <<>>
    /\ limit = 0
    /\ suggestions = <<>>
    /\ result = <<>>

NormalizeLabel ==
    /\ pc = "labelled"
    /\ nkey' = _normalize_label(label)
    /\ pc' = "normalized"
    /\ UNCHANGED <<analyzer, graph, params, _index, indexfile, exc, label, nkey2,
                   lookup_key, score1, score2, conflated, keyphrases, limit,
                   suggestions, result>>

NormalizeKey ==
    /\ pc = "normalized"
    /\ nkey2' = _normalize_label(nkey)
    /\ pc' = "renormalized"
    /\ UNCHANGED <<analyzer, graph, params, _index, indexfile, exc, label, nkey,
                   lookup_key, score1, score2, conflated, keyphrases, limit,
                   suggestions, result>>

Keyphrase2Uris ==
    /\ pc = "renormalized"
    /\ lookup_key' = KeyphraseKey(label)
    /\ result' = _keyphrase2uris(label)
    /\ pc' = "looked_up"
    /\ UNCHANGED <<analyzer, graph, params, _index, indexfile, exc, label, nkey,
                   nkey2, score1, score2, conflated, keyphrases, limit,
                   suggestions>>

NormNext == NormalizeLabel \/ NormalizeKey \/ Keyphrase2Uris

SpecNorm == NormInit /\ [][NormNext]_vars

\* s holds a match of r' \(.*\)'.
HasParenMatch(s) == \E i \in 1..Len(s) : MatchEnd(s, i) # 0

\* The word normalizer maps every word of the key s to itself.
WordsFixed(s) ==
    \A i \in 1..Len(Split(s)) :
        Lower(normalize_word(analyzer, Split(s)[i])) = Split(s)[i]

\* C3 (as claimed): the key _keyphrase2uris looks up for a phrase is
\* _normalize_label of that phrase, for both values of remove_parentheses.
C3_KeyphraseKeyIsNormalizedLabel ==
    pc = "looked_up" => lookup_key = nkey

\* C6 (as claimed): normalizing a normalized label changes nothing, for
\* both values of remove_parentheses, whenever the word normalizer maps
\* each word of the normalized label to itself.
C6_Idempotent ==
    (pc \in {"renormalized", "looked_up"} /\ WordsFixed(nkey)) => nkey2 = nkey

\* C6 (amended): normalizing a normalized label changes nothing whenever
\* the word normalizer maps each word of the normalized label to itself
\* and, if remove_parentheses is set, the normalized label holds no match
\* of ' \(.*\)' (sorting the words can bring a '(' word behind a space).
C6_IdempotentWithoutParenMatch ==
    (/\ pc \in {"renormalized", "looked_up"}
     /\ WordsFixed(nkey)
     /\ (params.remove_parentheses => ~HasParenMatch(nkey)))
        => nkey2 = nkey

\* C6 witness: with remove_parentheses set, a label that holds '(' and ')'
\* and whose words were reordered has been normalized twice, the first
\* result holding no match.
C6_Witness ==
    /\ pc = "renormalized"
    /\ params.remove_parentheses
    /\ WordsFixed(nkey)
    /\ ~HasParenMatch(nkey)
    /\ Ord["("] \in {nkey[i] : i \in 1..Len(nkey)}
    /\ Ord[")"] \in {nkey[i] : i \in 1..Len(nkey)}
    /\ Len(Split(nkey)) >= 2
    /\ nkey # label
    /\ nkey2 = nkey

-----------------------------------------------------------------------------
(* Score combination on its own: _conflate_scores applied to two scores    *)
(* of [0, 1].                                                              *)

Probabilities == {Rat(n, ScoreDen) : n \in 0..ScoreDen}

ScoreInit ==
    /\ analyzer = "simple"
    /\ graph = EmptyGraph
    /\ params = DefaultParams
    /\ _index = Some(EmptyIndex)
    /\ indexfile = None
    /\ exc = "none"
    /\ pc = "scored"
    /\ label = <<>> /\ nkey = <<>> /\ nkey2 = <<>> /\ lookup_key = <<>>
    /\ score1 \in Probabilities
    /\ score2 \in Probabilities
    /\ conflated = Zero
    /\ keyphrases = <<>>
    /\ limit = 0
    /\ suggestions = <<>>
    /\ result = <<>>

ConflateScores ==
    /\ pc = "scored"
    /\ conflated' = _conflate_scores(score1, score2)
    /\ exc' = IF IsError(_conflate_scores(score1, score2))
              THEN "ZeroDivisionError" ELSE "none"
    /\ pc' = "conflated"
    /\ UNCHANGED <<analyzer, graph, params, _index, indexfile, label, nkey, nkey2,
                   lookup_key, score1, score2, keyphrases, limit, suggestions,
                   result>>

ScoreNext == ConflateScores

SpecScore == ScoreInit /\ [][ScoreNext]_vars

\* C1 (as claimed): the combination of (0.5, 0.5) is 0.8, of (0.75, 0.75)
\* is 0.96, of (0.4, 0.3) is 0.625 and of (0.4, 0.5) is 0.75.
C1_CombineValues ==
    pc = "conflated" =>
        /\ (score1 = Rat(1, 2) /\ score2 = Rat(1, 2)) => conflated = Rat(4, 5)
        /\ (score1 = Rat(3, 4) /\ score2 = Rat(3, 4)) => conflated = Rat(24, 25)
        /\ (score1 = Rat(2, 5) /\ score2 = Rat(3, 10)) => conflated = Rat(5, 8)
        /\ (score1 = Rat(2, 5) /\ score2 = Rat(1, 2)) => conflated = Rat(3, 4)

\* C2 (as claimed): combining 1.0 with any x of [0, 1], in either order,
\* returns 1.0 and raises nothing, x = 0.0 included.
C2_CombineWithOne ==
    (pc = "conflated" /\ (score1 = One \/ score2 = One)) =>
        (exc = "none" /\ conflated = One)

-----------------------------------------------------------------------------
(* A suggest call on an initialized backend: the extractor's keyphrases    *)
(* are matched against the index and the combined pairs assembled.         *)

U1 == Str(<<"u", "1">>)
U2 == Str(<<"u", "2">>)
U3 == Str(<<"u", "3">>)

SuggestPhrases == {Str(<<"a", " ", "b">>), Str(<<"B", " ", "a">>), Str(<<"c">>), Str(<<"x">>)}

RawScores == {Rat(0 - 1, 1), Rat(1, 2)}

SuggestIndexes ==
    {(Str(<<"a", " ", "b">>) :> <<U1, U2>>) @@ (Str(<<"c">>) :> <<U2>>),
     (Str(<<"a", " ", "b">>) :> <<U3>>) @@ (Str(<<"c">>) :> <<U3, U1, U3>>)}

Candidates == {<<ph, raw>> : ph \in SuggestPhrases, raw \in RawScores}

SuggestInit ==
    /\ analyzer = "simple"
    /\ graph = EmptyGraph
    /\ params = DefaultParams
    /\ _index \in {Some(ix) : ix \in SuggestIndexes}
    /\ indexfile = None
    /\ exc = "none"
    /\ pc = "ready"
    /\ label = <<>> /\ nkey = <<>> /\ nkey2 = <<>> /\ lookup_key = <<>>
    /\ score1 = Zero /\ score2 = Zero /\ conflated = Zero
    /\ keyphrases \in UNION {[1..k -> Candidates] : k \in 0..MaxKeyphrases}
    /\ limit \in {1, MaxLimit}
    /\ suggestions = <<>>
    /\ result = <<>>

\* _suggest: the matcher, then the comprehension that assembles the
\* suggestions.  A ZeroDivisionError of the matcher leaves the call with
\* no result.
Suggest ==
    /\ pc = "ready"
    /\ LET combined == _keyphrases2suggestions(keyphrases)
       IN  IF Raised(combined)
           THEN /\ exc' = "ZeroDivisionError"
                /\ UNCHANGED <<suggestions, result>>
           ELSE /\ exc' = "none"
                /\ suggestions' = combined
                /\ result' = Assemble(combined, limit)
    /\ pc' = "suggested"
    /\ UNCHANGED <<analyzer, graph, params, _index, indexfile, label, nkey, nkey2,
                   lookup_key, score1, score2, conflated, keyphrases, limit>>

SuggestNext == Suggest

SpecSuggest == SuggestInit /\ [][SuggestNext]_vars

\* The URIs the i-th keyphrase reaches.
Reached(i) ==
    LET uris == IndexGet(_index[1], KeyphraseKey(keyphrases[i][1]))
    IN  {uris[j] : j \in 1..Len(uris)}

\* The first keyphrase that reaches uri.
FirstMatch(uri) ==
    CHOOSE i \in 1..Len(keyphrases) :
        /\ uri \in Reached(i)
        /\ \A j \in 1..(i - 1) : uri \notin Reached(j)

-----------------------------------------------------------------------------
(* The assembly of the suggestion list on its own: the comprehension of    *)
(* _suggest applied to any list of combined pairs.                         *)

PairScores == {Zero, Rat(1, 2), One}

AssembleInit ==
    /\ analyzer = "simple"
    /\ graph = EmptyGraph
    /\ params = DefaultParams
    /\ _index = Some(EmptyIndex)
    /\ indexfile = None
    /\ exc = "none"
    /\ pc = "combined"
    /\ label = <<>> /\ nkey = <<>> /\ nkey2 = <<>> /\ lookup_key = <<>>
    /\ score1 = Zero /\ score2 = Zero /\ conflated = Zero
    /\ keyphrases = <<>>
    /\ limit \in 0..MaxLimit
    /\ suggestions \in UNION {[1..k -> {U1, U2} \X PairScores] : k \in 0..MaxPairs}
    /\ result = <<>>

AssembleSuggestions ==
    /\ pc = "combined"
    /\ result' = Assemble(suggestions, limit)
    /\ pc' = "assembled"
    /\ UNCHANGED <<analyzer, graph, params, _index, indexfile, exc, label, nkey,
                   nkey2, lookup_key, score1, score2, conflated, keyphrases, limit,
                   suggestions>>

AssembleNext == AssembleSuggestions

SpecAssemble == AssembleInit /\ [][AssembleNext]_vars

\* C4 (as claimed): the assembled list is the list of positive-score pairs
\* cut to its first `limit` entries, so it holds min(limit, number of
\* positive-score pairs) entries.
C4_DropThenTruncate ==
    pc = "assembled" =>
        /\ result = Slice(KeepPositive(suggestions), limit)
        /\ Len(result) = (IF limit < Len(KeepPositive(suggestions))
                          THEN limit ELSE Len(KeepPositive(suggestions)))

-----------------------------------------------------------------------------
(* The life of the index: a backend instance is constructed on a project   *)
(* and a data directory, initialize() loads the index file if there is one *)
(* and builds and saves the index otherwise, and a later instance may be   *)
(* constructed on the same data directory with another configuration.      *)

LabelPool ==
    {[concept |-> U1, kind |-> "prefLabel", lang |-> "fi", text |-> Str(<<"a", " ", "b">>)],
     [concept |-> U2, kind |-> "altLabel", lang |-> "fi", text |-> Str(<<"B", " ", "a", "a">>)],
     [concept |-> U2, kind |-> "prefLabel", lang |-> "fi", text |-> Str(<<"c", " ", "(", "d", ")">>)],
     [concept |-> U1, kind |-> "prefLabel", lang |-> "sv", text |-> Str(<<"a", " ", "b">>)],
     [concept |-> U1, kind |-> "hiddenLabel", lang |-> "fi", text |-> Str(<<" ", "(", "d", ")">>)],
     [concept |-> U3, kind |-> "prefLabel", lang |-> "fi", text |-> Str(<<"c">>)]}

Graphs ==
    {[concepts |-> {U1, U2}, deprecated |-> d, labels |-> ls] :
        d \in {{}, {U2}, {U1, U2}},
        ls \in {x \in SUBSET LabelPool : Cardinality(x) <= MaxLabels}}

LabelTypeParams ==
    {None,
     Some(Str(<<"p", "r", "e", "f">>)),
     Some(Str(<<"a", "l", "t">>)),
     Some(Str(<<"p", "r", "e", "f", ",", " ", "h", "i", "d", "d", "e", "n">>)),
     Some(Str(<<"p", "r", "e", "f", ",", "x">>))}

\* The configurations an instance on this project can be given; the
\* remove_parentheses setting rp belongs to the project's configuration.
Configs(rp) ==
    {[language |-> lang, label_types |-> lt, remove_parentheses |-> rp] :
        lang \in {"fi", "sv"}, lt \in LabelTypeParams}

IndexInit ==
    /\ analyzer \in {"simple", "snowball"}
    /\ graph \in Graphs
    /\ params \in UNION {Configs(rp) : rp \in BOOLEAN}
    /\ _index = None
    /\ indexfile = None
    /\ exc = "none"
    /\ pc = "constructed"
    /\ label = <<>> /\ nkey = <<>> /\ nkey2 = <<>> /\ lookup_key = <<>>
    /\ score1 = Zero /\ score2 = Zero /\ conflated = Zero
    /\ keyphrases = <<>>
    /\ limit = 0
    /\ suggestions = <<>>
    /\ result = <<>>

\* initialize(): _initialize_index (the extractor built after it holds no
\* state of the model).
Initialize ==
    /\ pc = "constructed"
    /\ IF _index # None
       THEN /\ pc' = "initialized"
            /\ UNCHANGED <<_index, indexfile, exc>>
       ELSE IF indexfile # None
       THEN LET loaded == _load_index(indexfile[1])
            IN  IF loaded.exc # "none"
                THEN /\ exc' = loaded.exc
                     /\ pc' = "failed"
                     /\ UNCHANGED <<_index, indexfile>>
                ELSE /\ _index' = Some(loaded.index)
                     /\ pc' = "loaded"
                     /\ UNCHANGED <<indexfile, exc>>
       ELSE LET created == _create_index(graph, params)
            IN  IF created.exc # "none"
                THEN /\ exc' = created.exc
                     /\ pc' = "failed"
                     /\ UNCHANGED <<_index, indexfile>>
                ELSE \E ix \in IndexOrders(created.index) :
                     \E keyorder \in Orders(DOMAIN created.index) :
                         /\ _index' = Some(ix)
                         /\ indexfile' = Some(_save_index(ix, keyorder))
                         /\ pc' = "created"
                         /\ UNCHANGED exc
    /\ UNCHANGED <<analyzer, graph, params, label, nkey, nkey2, lookup_key, score1,
                   score2, conflated, keyphrases, limit, suggestions, result>>

\* A new backend instance on the same project and data directory, with
\* another language or label_types setting: _index is the class default.
NewInstance ==
    /\ pc \in {"created", "loaded", "failed"}
    /\ \E p \in Configs(params.remove_parentheses) :
           /\ p # params
           /\ params' = p
    /\ _index' = None
    /\ exc' = "none"
    /\ pc' = "constructed"
    /\ UNCHANGED <<analyzer, graph, indexfile, label, nkey, nkey2, lookup_key,
                   score1, score2, conflated, keyphrases, limit, suggestions,
                   result>>

IndexNext == Initialize \/ NewInstance

SpecIndex == IndexInit /\ [][IndexNext]_vars

\* The set of the elements of a sequence.
Elems(q) == {q[i] : i \in 1..Len(q)}

\* The index as a mapping from keys to sets of concepts.
AsSets(index) == [k \in DOMAIN index |-> Elems(index[k])]

\* Concept c carries a label of one of the kinds and of language lang
\* that normalizes to key k.
HasLabel(c, kinds, lang, k) ==
    \E l \in graph.labels :
        /\ l.concept = c
        /\ l.kind \in Elems(kinds)
        /\ l.lang = lang
        /\ _normalize_label(l.text) = k

\* The keys and concepts the claims quantify over.
AllKeys ==
    {<<>>} \cup {_normalize_label(l.text) : l \in graph.labels}
        \cup (IF _index = None THEN {} ELSE DOMAIN _index[1])
AllConcepts == {U1, U2, U3}

\* C5: the file written by save, loaded again, raises nothing and gives
\* the index that was saved, as a mapping from keys to sets of concepts.
C5_RoundTrip ==
    pc = "created" =>
        /\ _load_index(indexfile[1]).exc = "none"
        /\ AsSets(_load_index(indexfile[1]).index) = AsSets(_index[1])

\* C5 witness: an index of two keys, one of them of two words and one of
\* them with two concepts, has been built and saved.
C5_Witness ==
    /\ pc = "created"
    /\ Cardinality(DOMAIN _index[1]) >= 2
    /\ \E k \in DOMAIN _index[1] : Len(_index[1][k]) = 2
    /\ \E k \in DOMAIN _index[1] : Ord[" "] \in Elems(k)

\* The label kinds of the vocabulary.
AllKinds == <<"prefLabel", "altLabel", "hiddenLabel">>

\* Concept c is reachable for key k only through labels of kinds that are
\* not configured.
OnlyUnconfiguredKinds(c, k) ==
    /\ HasLabel(c, AllKinds, params.language, k)
    /\ ~HasLabel(c, label_types(params).kinds, params.language, k)

\* C7 (as claimed): after initialization, whether the index was loaded or
\* rebuilt, no concept that is reachable for a key only through labels of
\* kinds that are not configured is returned for that key.
C7_UnconfiguredKindsNeverReturned ==
    (pc \in {"created", "loaded"} /\ label_types(params).ok) =>
        \A k \in DOMAIN _index[1] :
            \A c \in Elems(_keyphrase2uris(k)) : ~OnlyUnconfiguredKinds(c, k)

\* C8 (as claimed): with an unknown label-kind token in the configuration,
\* initialize() ends in a ConfigurationException and leaves the instance
\* without an index, whether or not an index file exists.
C8_UnknownKindFails ==
    (pc \in {"created", "loaded", "failed"} /\ ~label_types(params).ok) =>
        (pc = "failed" /\ exc = "ConfigurationException" /\ _index = None)

====
